---------------------------- MODULE Spec2Model ----------------------------
(***************************************************************************)
(* State-machine model of owt::p2p::P2PClient                              *)
(* (talk/owt/sdk/p2p/p2pclient.cc).                                        *)
(*                                                                         *)
(* Every P2PClient instance ("endpoint") owns an allow list, a channel     *)
(* registry, a pending-removal list, an event queue and a signaling queue. *)
(* Caller threads run the public API; the signaling queue runs the body of *)
(* the task posted by OnSignalingMessage one message at a time; every      *)
(* OnStopped callback runs its cleanup on a detached thread.  A handler is *)
(* cut into steps at each lock region and at each call into a channel, so  *)
(* that the interleavings the locks allow are the interleavings of the     *)
(* model.                                                                  *)
(*                                                                         *)
(* P2PPeerConnectionChannel is a collaborator whose code is not part of    *)
(* p2pclient.cc; the Chan* operators model it from the specification       *)
(* (sections 4.5 and 6).                                                   *)
(***************************************************************************)
EXTENDS Integers, Sequences, FiniteSets, TLC

VARIABLES
  local_id_,             \* [endpoint -> id]; <<>> until Connect succeeded
  allowed_remote_ids_,   \* [endpoint -> Seq(id)]: a std::vector
  pc_channels_,          \* [endpoint -> [id -> Absent | NullPtr | channel]]
  removed_pc_channels_,  \* [endpoint -> Seq(NullPtr | channel)]
  chans,                 \* the channel objects ever constructed, by number
  event_queue_,          \* [endpoint -> Seq(task)]: the tasks posted, in order
  signaling_queue_,      \* [endpoint -> Seq([from, msg])]: tasks posted
  sig,                   \* [endpoint -> position and locals of the task]
  htrace,                \* [endpoint -> calls made by the task being run]
  thr,                   \* [endpoint -> [thread -> position and locals]]
  onstop,                \* [endpoint -> [id -> detached OnStopped threads]]
  wire,                  \* messages handed to SendSignalingMessage
  arrived,               \* the messages of wire the transport delivered
  crashed,               \* [endpoint -> a null channel was dereferenced]
  destroyed,             \* [endpoint -> the P2PClient has been destroyed]
  ncalls,                \* [endpoint -> public calls made so far]
  ninject,               \* [endpoint -> messages the environment sent]
  quiet,                 \* [endpoint -> id of the last Stop, see StopErase]
  evictions,             \* [endpoint -> who removed a registry entry]
  glare                  \* the channels of the first glare, <<>> before it

vars == <<local_id_, allowed_remote_ids_, pc_channels_, removed_pc_channels_,
          chans, event_queue_, signaling_queue_, sig, htrace, thr,
          onstop, wire, arrived, crashed, destroyed, ncalls, ninject, quiet,
          evictions, glare>>

-----------------------------------------------------------------------------
(* Bounds of the model. *)

\* public calls one endpoint makes under Spec
MaxCalls == 3
\* inbound messages the environment sends to one endpoint under Spec
MaxInject == 1
\* channel objects constructed in one run
MaxChan == 3
\* public calls one endpoint makes under SpecGlare
GlareCalls == 2
\* the first calls of an endpoint, which may pass a null on_failure
NullFailCalls == 1
\* public calls the endpoint makes under SpecQuery
QueryCalls == 4
\* public calls and inbound messages of the endpoint under SpecPublish
PublishCalls == 2
PublishInjects == 3
\* public calls the endpoint makes under SpecDestroy
DestroyCalls == 3

-----------------------------------------------------------------------------
(* Identifiers are strings: sequences of characters (their codes).         *)

IdLow == <<1>>
IdMid == <<1, 2>>
IdHigh == <<2>>
Ids == {IdLow, IdMid, IdHigh}
NoId == <<>>

\* the endpoints (P2PClient instances); an endpoint is named by the id the
\* signaling server gives it on Connect
Endpoints == {IdMid, IdHigh}
Threads == {1, 2}

\* std::map::end() / a null std::shared_ptr
Absent == -1
NullPtr == 0
ChanIds == 1..Len(chans)

kWebrtcIceGatheringPolicyUnsupported == 2601

\* the signaling messages of the model: an offer, an answer, a chat-closed
\* carrying the reserved code, a chat-closed carrying another code (or no
\* data field), and a chat-closed whose body is not valid JSON
Messages == {"offer", "answer", "closed2601", "closedOther", "closedBad"}

\* message.find("\"type\":\"offer\"") != npos
HasOfferTag(m) == m = "offer"
\* message.find("\"type\":\"chat-closed\"") != npos
HasClosedTag(m) == m \in {"closed2601", "closedOther", "closedBad"}
\* Json::Reader::parse(message, json_message)
JsonParses(m) == m # "closedBad"
\* GetIntFromJsonObject(stop_info, "code", &code), code initialised to 0
JsonCode(m) == IF m = "closed2601" THEN 2601 ELSE 0

IsRetryCodeFlipped(code) == code # kWebrtcIceGatheringPolicyUnsupported
IsRetryCode(code) == code = kWebrtcIceGatheringPolicyUnsupported

\* std::string::compare: the sign of the first differing character, else of
\* the difference of lengths
RECURSIVE StrCompare(_, _)
StrCompare(a, b) ==
  IF a = <<>> /\ b = <<>> THEN 0
  ELSE IF a = <<>> THEN -1
  ELSE IF b = <<>> THEN 1
  ELSE IF Head(a) < Head(b) THEN -1
  ELSE IF Head(a) > Head(b) THEN 1
  ELSE StrCompare(Tail(a), Tail(b))

LocalIdYieldsByLength(e, remote) == Len(local_id_[e]) > Len(remote)
LocalIdYieldsFlipped(e, remote) == StrCompare(local_id_[e], remote) < 0
\* that->local_id_.compare(remote_id) > 0
LocalIdYields(e, remote) == StrCompare(local_id_[e], remote) > 0

\* std::find(allowed_remote_ids_.begin(), end(), id) != end()
InAllowList(e, id) ==
  \E i \in 1..Len(allowed_remote_ids_[e]) : allowed_remote_ids_[e][i] = id

PublishAllowedAlways(e, id) == TRUE
\* the guard of Publish
PublishAllowed(e, id) == InAllowList(e, id)
\* the guard of Send
SendAllowed(e, id) == InAllowList(e, id)
RemoveFoundAlways(e, id) == TRUE
\* the guard of RemoveAllowedRemoteId
RemoveFound(e, id) == InAllowList(e, id)
SignalingAllowedAlways(e, id) == TRUE
\* the guard of the signaling task
SignalingAllowed(e, id) == InAllowList(e, id)

\* std::remove + erase
RemoveAll(s, id) == SelectSeq(s, LAMBDA x : x # id)

\* IsPeerConnectionChannelCreated
IsPeerConnectionChannelCreated(e, id) == pc_channels_[e][id] # Absent

-----------------------------------------------------------------------------
(* Publish requests, tasks, trace events. *)

\* a null stream with null continuations
NoReq == [stream |-> 0, ok |-> 0, fail |-> 0]

\* a task of the event queue: the continuation cb called with a result
Task(kind, code, cb) == [kind |-> kind, code |-> code, cb |-> cb]

\* event_queue_->PostTask of a failure, skipped for a null on_failure
PostFailure(e, code, cb) ==
  IF cb = 0 THEN event_queue_[e]
  ELSE Append(event_queue_[e], Task("failure", code, cb))

\* a call the signaling task made: ev on channel ch with request req
Ev(ev, ch, req) == [ev |-> ev, ch |-> ch, req |-> req]

IdleThr == [pc |-> "idle", op |-> "none", id |-> NoId, req |-> NoReq,
            pcc |-> Absent, seen |-> Absent]
IdleSig == [pc |-> "idle", from |-> NoId, msg |-> "none", pcc |-> Absent,
            req |-> NoReq, newpcc |-> Absent, path |-> "none", seen |-> Absent]

-----------------------------------------------------------------------------
(* P2PPeerConnectionChannel, modelled from the specification.              *)
(* state: Idle -> Offering | Answering -> Established -> Stopping ->       *)
(* Terminated; latest: the most recent publish request; pending: the       *)
(* publish request whose completion the channel has yet to report;         *)
(* abandoned and stopDisabled suppress the outbound teardown message.      *)

NewChannel(e, id) ==
  [owner |-> e, remote |-> id, state |-> "Idle", latest |-> NoReq,
   pending |-> NoReq, abandoned |-> FALSE, stopDisabled |-> FALSE]

Emit(c, m) == [ch |-> c, msg |-> m]

\* HaveLocalOffer()
HaveLocalOffer(c) == chans[c].state = "Offering"

\* GetLatestLocalStream / GetLatestPublishSuccessCallback /
\* GetLatestPublishFailureCallback
LatestRequest(c) == chans[c].latest

\* Publish(stream, on_success, on_failure): keeps the request; an idle
\* channel creates its offer and sends it
ChanPublish(c, req) ==
  /\ chans' = [chans EXCEPT ![c] =
       [@ EXCEPT !.latest = req,
                 !.pending = req,
                 !.state = IF @ = "Idle" THEN "Offering" ELSE @]]
  /\ wire' = IF chans[c].state = "Idle" THEN wire \cup {Emit(c, "offer")}
             ELSE wire

\* Send(message, is_reliable, ...): an idle channel negotiates first
ChanSend(c) ==
  /\ chans' = [chans EXCEPT ![c].state = IF @ = "Idle" THEN "Offering" ELSE @]
  /\ wire' = IF chans[c].state = "Idle" THEN wire \cup {Emit(c, "offer")}
             ELSE wire

\* OnIncomingSignalingMessage(message): an offer makes an idle channel the
\* answerer; an answer completes the negotiation of an offering channel
ChanIncoming(c, m) ==
  /\ chans' = [chans EXCEPT ![c].state =
       IF m = "offer" /\ @ = "Idle" THEN "Answering"
       ELSE IF m = "answer" /\ @ = "Offering" THEN "Established"
       ELSE @]
  /\ wire' = IF m = "offer" /\ chans[c].state = "Idle"
             THEN wire \cup {Emit(c, "answer")}
             ELSE wire

\* whether Stop sends the teardown message to the remote
SendsStop(c) ==
  /\ chans[c].state \notin {"Stopping", "Terminated"}
  /\ ~chans[c].abandoned
  /\ ~chans[c].stopDisabled

\* Stop(on_success, on_failure): Stopping, then (ChanStopped) Terminated
ChanStop(c, e, req) ==
  /\ chans' = [chans EXCEPT ![c].state =
       IF @ = "Terminated" THEN @ ELSE "Stopping"]
  /\ wire' = IF SendsStop(c) THEN wire \cup {Emit(c, "closedOther")} ELSE wire
  /\ event_queue_' = IF req.ok = 0 THEN event_queue_
       ELSE [event_queue_ EXCEPT ![e] = Append(@, Task("success", "Stop", req.ok))]

\* SetAbandoned()
ChanSetAbandoned(c) == chans' = [chans EXCEPT ![c].abandoned = TRUE]

-----------------------------------------------------------------------------
(* GetPeerConnectionChannel(target_id, replace), one lock region.          *)

\* pcc_it->second->IsAbandoned() on a null shared_ptr
GetDerefsNull(e, id) == pc_channels_[e][id] = NullPtr

\* pcc_it != end() && (replace || pcc_it->second->IsAbandoned())
GetEvicts(e, id, replace) ==
  /\ pc_channels_[e][id] \in ChanIds
  /\ (replace \/ chans[pc_channels_[e][id]].abandoned)

GetCreates(e, id, replace) ==
  pc_channels_[e][id] = Absent \/ GetEvicts(e, id, replace)

\* the channel returned
GetResult(e, id, replace) ==
  IF GetCreates(e, id, replace) THEN Len(chans) + 1 ELSE pc_channels_[e][id]

\* what a lookup can do.  A null entry is dereferenced (IsAbandoned() on a
\* null shared_ptr) and the process is killed.  An eviction calls
\* DisableSendingStop() through the iterator it has just erased: the write
\* reaches the channel, or is lost, or the process is killed.
GetOutcomes(e, id, replace) ==
  IF GetDerefsNull(e, id) THEN {"killed"}
  ELSE IF GetEvicts(e, id, replace) THEN {"done", "lost", "killed"}
  ELSE {"done"}

\* the step: a new channel is constructed and inserted, an abandoned one is
\* erased and told not to send stop
GetPeerConnectionChannel(e, id, replace, outcome) ==
  /\ outcome \in GetOutcomes(e, id, replace)
  /\ UNCHANGED destroyed
  /\ outcome # "killed" /\ GetCreates(e, id, replace) => Len(chans) < MaxChan
  /\ IF outcome = "killed"
     THEN /\ crashed' = [crashed EXCEPT ![e] = TRUE]
          /\ UNCHANGED <<chans, pc_channels_>>
     ELSE /\ crashed' = crashed
          /\ pc_channels_' = [pc_channels_ EXCEPT ![e][id] = GetResult(e, id, replace)]
          /\ chans' =
               IF GetCreates(e, id, replace)
               THEN Append(
                      IF GetEvicts(e, id, replace) /\ outcome = "done"
                      THEN [chans EXCEPT ![pc_channels_[e][id]].stopDisabled = TRUE]
                      ELSE chans,
                      NewChannel(e, id))
               ELSE chans

-----------------------------------------------------------------------------
(* The state after construction. *)

Init ==
  /\ local_id_ = [e \in Endpoints |-> NoId]
  /\ allowed_remote_ids_ = [e \in Endpoints |-> <<>>]
  /\ pc_channels_ = [e \in Endpoints |-> [id \in Ids |-> Absent]]
  /\ removed_pc_channels_ = [e \in Endpoints |-> <<>>]
  /\ chans = <<>>
  /\ event_queue_ = [e \in Endpoints |-> <<>>]
  /\ signaling_queue_ = [e \in Endpoints |-> <<>>]
  /\ sig = [e \in Endpoints |-> IdleSig]
  /\ htrace = [e \in Endpoints |-> <<>>]
  /\ thr = [e \in Endpoints |-> [t \in Threads |-> IdleThr]]
  /\ onstop = [e \in Endpoints |-> [id \in Ids |-> [push |-> 0, erase |-> 0]]]
  /\ wire = {}
  /\ arrived = {}
  /\ crashed = [e \in Endpoints |-> FALSE]
  /\ destroyed = [e \in Endpoints |-> FALSE]
  /\ ncalls = [e \in Endpoints |-> 0]
  /\ ninject = [e \in Endpoints |-> 0]
  /\ quiet = [e \in Endpoints |-> NoId]
  /\ evictions = [e \in Endpoints |-> {}]
  /\ glare = <<>>

-----------------------------------------------------------------------------
(* The public API, run by caller threads.                                  *)

\* evictions after an erase(id) by a path that had found the entry seen:
\* noted when the erase removes a channel
Evicted(e, id, by, seen) ==
  IF pc_channels_[e][id] \in ChanIds
  THEN [evictions EXCEPT ![e] = @ \cup {[by |-> by, seen |-> seen]}]
  ELSE evictions

\* glare after the registered channel c of e sends its offer to id: both
\* endpoints have sent an offer to the other before either has received
\* the other's.  The first glare of a run is kept, with the two channels.
Crossing(e, id, c) ==
  IF /\ glare = <<>>
     /\ id \in Endpoints \ {e}
     /\ chans[c].state = "Idle"
     /\ pc_channels_[e][id] = c
     /\ pc_channels_[id][e] \in ChanIds
     /\ chans[pc_channels_[id][e]].state = "Offering"
     /\ Emit(pc_channels_[id][e], "offer") \in wire \ arrived
  THEN [f \in Endpoints |-> IF f = e THEN c ELSE pc_channels_[f][e]]
  ELSE glare

\* the process is killed: nothing else changes
Killed(e) ==
  /\ crashed' = [crashed EXCEPT ![e] = TRUE]
  /\ UNCHANGED <<local_id_, allowed_remote_ids_, pc_channels_,
                 removed_pc_channels_, chans, event_queue_, signaling_queue_,
                 sig, htrace, thr, onstop, wire, arrived, ncalls, ninject,
                 quiet, evictions, glare, destroyed>>

\* a statement that writes allowed_remote_ids_ is next for a thread other
\* than t.  std::find reads the list without remote_ids_mutex_: next to
\* such a write it is a data race, which ends as if one ran before the
\* other or kills the process.
ListBusy(e, t) ==
  \E u \in Threads \ {t} : thr[e][u].pc \in {"Add_push", "Rem_erase"}

\* a thread of a live process at a position
AtThr(e, t, pc) == ~crashed[e] /\ ~destroyed[e] /\ thr[e][t].pc = pc
SetThr(e, t, r) == thr' = [thr EXCEPT ![e][t] = r]
GoThr(e, t, pc) == thr' = [thr EXCEPT ![e][t].pc = pc]
OtherThreadsIdle(e, t) == \A u \in Threads \ {t} : thr[e][u].pc = "idle"

FirstPc(op) ==
  CASE op = "Add" -> "Add_find"
    [] op = "Remove" -> "Rem_find"
    [] op = "Publish" -> "Pub_find"
    [] op = "Send" -> "Send_find"
    [] op = "Stop" -> "Stop_check"
    [] op = "Unpublish" -> "Unpub_check"
    [] op = "Stats" -> "Stats_check"
    [] op = "StatsReport" -> "Report_check"

\* a caller thread enters a public method: op(id, ...) with fresh
\* continuations (the number of the call), on_failure possibly null.  The
\* threads are interchangeable: a call takes the first one that is free.
Call(e, t, ops, targets, limit) ==
  /\ AtThr(e, t, "idle")
  /\ \A u \in Threads : u < t => thr[e][u].pc # "idle"
  /\ ncalls[e] < limit
  /\ \E op \in ops, id \in targets, hasFail \in BOOLEAN :
       LET k == ncalls[e] + 1 IN
       /\ op = "Add" => ~hasFail
       /\ op # "Add" /\ k > NullFailCalls => hasFail
       /\ SetThr(e, t, [pc |-> FirstPc(op), op |-> op, id |-> id,
                        req |-> [stream |-> IF op = "Publish" THEN k ELSE 0,
                                 ok |-> IF op = "Add" THEN 0 ELSE k,
                                 fail |-> IF hasFail THEN k ELSE 0],
                        pcc |-> Absent, seen |-> Absent])
       /\ quiet' = [quiet EXCEPT ![e] = IF op = "Stop" /\ id = @ THEN @ ELSE NoId]
  /\ ncalls' = [ncalls EXCEPT ![e] = @ + 1]
  /\ UNCHANGED <<evictions, glare>>
  /\ UNCHANGED <<local_id_, allowed_remote_ids_, pc_channels_,
                 removed_pc_channels_, chans, event_queue_, signaling_queue_, sig, htrace, onstop, wire, arrived,
                 crashed, destroyed, ninject>>

\* Connect's success continuation: auto that = weak_this.lock();
\* if (that) that->SetLocalId(user_id)
Connect(e) ==
  /\ ~crashed[e]
  /\ local_id_[e] # e
  /\ local_id_' = IF destroyed[e] THEN local_id_
                  ELSE [local_id_ EXCEPT ![e] = e]
  /\ UNCHANGED <<allowed_remote_ids_, pc_channels_, removed_pc_channels_,
                 chans, event_queue_, signaling_queue_, sig, htrace,
                 thr, onstop, wire, arrived, crashed, destroyed, ncalls, ninject, quiet, evictions, glare>>

\* AddAllowedRemoteId: the duplicate check, made before the lock is taken
AddFind(e, t) ==
  /\ AtThr(e, t, "Add_find")
  /\ \/ ListBusy(e, t) /\ Killed(e)
     \/ /\ IF InAllowList(e, thr[e][t].id)
          THEN SetThr(e, t, IdleThr)
          ELSE GoThr(e, t, "Add_push")
       /\ UNCHANGED <<local_id_, allowed_remote_ids_, pc_channels_,
                      removed_pc_channels_, chans, event_queue_, signaling_queue_, sig, htrace, onstop, wire, arrived,
                      crashed, destroyed, ncalls, ninject, quiet, evictions, glare>>

\* AddAllowedRemoteId: push_back under remote_ids_mutex_
AddPush(e, t) ==
  /\ AtThr(e, t, "Add_push")
  /\ allowed_remote_ids_' =
       [allowed_remote_ids_ EXCEPT ![e] = Append(@, thr[e][t].id)]
  /\ SetThr(e, t, IdleThr)
  /\ UNCHANGED <<local_id_, pc_channels_, removed_pc_channels_, chans,
                 event_queue_, signaling_queue_, sig, htrace, onstop,
                 wire, arrived, crashed, destroyed, ncalls, ninject, quiet, evictions, glare>>

\* RemoveAllowedRemoteId: the membership check and the early return
RemoveFind(e, t) ==
  /\ AtThr(e, t, "Rem_find")
  /\ \/ ListBusy(e, t) /\ Killed(e)
     \/ /\ IF ~RemoveFound(e, thr[e][t].id)
          THEN /\ event_queue_' = [event_queue_ EXCEPT ![e] =
                    PostFailure(e, "RemoteNotExisted", thr[e][t].req.fail)]
               /\ SetThr(e, t, IdleThr)
          ELSE /\ GoThr(e, t, "Rem_erase")
               /\ UNCHANGED event_queue_
       /\ UNCHANGED <<local_id_, allowed_remote_ids_, pc_channels_,
                      removed_pc_channels_, chans, signaling_queue_, sig,
                      htrace, onstop, wire, arrived, crashed, destroyed, ncalls, ninject,
                      quiet, evictions, glare>>

\* RemoveAllowedRemoteId: erase under the lock, then Stop(target_id, ...)
RemoveErase(e, t) ==
  /\ AtThr(e, t, "Rem_erase")
  /\ allowed_remote_ids_' =
       [allowed_remote_ids_ EXCEPT ![e] = RemoveAll(@, thr[e][t].id)]
  /\ GoThr(e, t, "Stop_check")
  /\ UNCHANGED <<local_id_, pc_channels_, removed_pc_channels_, chans,
                 event_queue_, signaling_queue_, sig, htrace, onstop,
                 wire, arrived, crashed, destroyed, ncalls, ninject, quiet, evictions, glare>>

\* Publish: the allow-list check and the early return
PublishFind(e, t) ==
  /\ AtThr(e, t, "Pub_find")
  /\ \/ ListBusy(e, t) /\ Killed(e)
     \/ /\ IF ~PublishAllowed(e, thr[e][t].id)
          THEN /\ event_queue_' = [event_queue_ EXCEPT ![e] =
                    PostFailure(e, "RemoteNotAllowed", thr[e][t].req.fail)]
               /\ SetThr(e, t, IdleThr)
          ELSE /\ GoThr(e, t, "Pub_get")
               /\ UNCHANGED event_queue_
       /\ UNCHANGED <<local_id_, allowed_remote_ids_, pc_channels_,
                      removed_pc_channels_, chans, signaling_queue_, sig,
                      htrace, onstop, wire, arrived, crashed, destroyed, ncalls, ninject,
                      quiet, evictions, glare>>

\* a caller's auto pcc = GetPeerConnectionChannel(target_id)
CallerGet(e, t, from, to) ==
  /\ AtThr(e, t, from)
  /\ \E outcome \in GetOutcomes(e, thr[e][t].id, FALSE) :
       /\ GetPeerConnectionChannel(e, thr[e][t].id, FALSE, outcome)
       /\ IF outcome = "killed"
          THEN UNCHANGED thr
          ELSE thr' = [thr EXCEPT ![e][t].pc = to,
                                  ![e][t].pcc = GetResult(e, thr[e][t].id, FALSE)]
  /\ UNCHANGED <<local_id_, allowed_remote_ids_, removed_pc_channels_,
                 event_queue_, signaling_queue_, sig, htrace, onstop,
                 wire, arrived, ncalls, ninject, quiet, evictions, glare>>

PublishGet(e, t) == CallerGet(e, t, "Pub_get", "Pub_call")

\* Publish: pcc->Publish(stream, wrapper of on_success, on_failure)
PublishCall(e, t) ==
  /\ AtThr(e, t, "Pub_call")
  /\ ChanPublish(thr[e][t].pcc, thr[e][t].req)
  /\ SetThr(e, t, IdleThr)
  /\ glare' = Crossing(e, thr[e][t].id, thr[e][t].pcc)
  /\ UNCHANGED <<local_id_, allowed_remote_ids_, pc_channels_,
                 removed_pc_channels_, event_queue_, signaling_queue_, sig, htrace, onstop, arrived, crashed, destroyed,
                 ncalls, ninject, quiet, evictions>>

\* Send: the allow-list check and the early return
SendFind(e, t) ==
  /\ AtThr(e, t, "Send_find")
  /\ \/ ListBusy(e, t) /\ Killed(e)
     \/ /\ IF ~SendAllowed(e, thr[e][t].id)
          THEN /\ event_queue_' = [event_queue_ EXCEPT ![e] =
                    PostFailure(e, "RemoteNotAllowed", thr[e][t].req.fail)]
               /\ SetThr(e, t, IdleThr)
          ELSE /\ GoThr(e, t, "Send_get")
               /\ UNCHANGED event_queue_
       /\ UNCHANGED <<local_id_, allowed_remote_ids_, pc_channels_,
                      removed_pc_channels_, chans, signaling_queue_, sig,
                      htrace, onstop, wire, arrived, crashed, destroyed, ncalls, ninject,
                      quiet, evictions, glare>>

SendGet(e, t) == CallerGet(e, t, "Send_get", "Send_call")

\* Send: pcc->Send(message, is_reliable, on_success, on_failure)
SendCall(e, t) ==
  /\ AtThr(e, t, "Send_call")
  /\ ChanSend(thr[e][t].pcc)
  /\ SetThr(e, t, IdleThr)
  /\ glare' = Crossing(e, thr[e][t].id, thr[e][t].pcc)
  /\ UNCHANGED <<local_id_, allowed_remote_ids_, pc_channels_,
                 removed_pc_channels_, event_queue_, signaling_queue_, sig, htrace, onstop, arrived, crashed, destroyed,
                 ncalls, ninject, quiet, evictions>>

\* Stop: IsPeerConnectionChannelCreated and the early return; seen notes
\* the entry the check found
StopCheck(e, t) ==
  /\ AtThr(e, t, "Stop_check")
  /\ IF ~IsPeerConnectionChannelCreated(e, thr[e][t].id)
     THEN /\ event_queue_' = [event_queue_ EXCEPT ![e] =
               PostFailure(e, "InvalidState", thr[e][t].req.fail)]
          /\ SetThr(e, t, IdleThr)
     ELSE /\ thr' = [thr EXCEPT ![e][t].pc = "Stop_get",
                                  ![e][t].seen = pc_channels_[e][thr[e][t].id]]
          /\ UNCHANGED event_queue_
  /\ quiet' = [quiet EXCEPT ![e] = NoId]
  /\ UNCHANGED <<evictions, glare>>
  /\ UNCHANGED <<local_id_, allowed_remote_ids_, pc_channels_,
                 removed_pc_channels_, chans, signaling_queue_, sig,
                 htrace, onstop, wire, arrived, crashed, destroyed, ncalls, ninject>>

StopGet(e, t) == CallerGet(e, t, "Stop_get", "Stop_call")

\* Stop: pcc->Stop(on_success, on_failure)
StopCall(e, t) ==
  /\ AtThr(e, t, "Stop_call")
  /\ ChanStop(thr[e][t].pcc, e, thr[e][t].req)
  /\ GoThr(e, t, "Stop_erase")
  /\ UNCHANGED <<local_id_, allowed_remote_ids_, pc_channels_,
                 removed_pc_channels_, signaling_queue_, sig, htrace,
                 onstop, arrived, crashed, destroyed, ncalls, ninject, quiet, evictions, glare>>

\* Stop: pc_channels_.erase(target_id) under pc_channels_mutex_.
\* quiet records a Stop(id) that returned with nothing else in progress at
\* the endpoint: no other call running, no signaling task running.
StopErase(e, t) ==
  /\ AtThr(e, t, "Stop_erase")
  /\ pc_channels_' = [pc_channels_ EXCEPT ![e][thr[e][t].id] = Absent]
  /\ SetThr(e, t, IdleThr)
  /\ quiet' = [quiet EXCEPT ![e] =
       IF thr[e][t].op = "Stop" /\ OtherThreadsIdle(e, t) /\ sig[e].pc = "idle"
       THEN thr[e][t].id ELSE NoId]
  /\ evictions' = Evicted(e, thr[e][t].id, "Stop", thr[e][t].seen)
  /\ UNCHANGED glare
  /\ UNCHANGED <<local_id_, allowed_remote_ids_, removed_pc_channels_, chans,
                 event_queue_, signaling_queue_, sig, htrace, onstop,
                 wire, arrived, crashed, destroyed, ncalls, ninject>>

\* Unpublish and GetConnectionStats: IsPeerConnectionChannelCreated and the
\* early return with InvalidState; seen notes the entry the check found
ExistsCheck(e, t, from, to) ==
  /\ AtThr(e, t, from)
  /\ IF ~IsPeerConnectionChannelCreated(e, thr[e][t].id)
     THEN /\ event_queue_' = [event_queue_ EXCEPT ![e] =
               PostFailure(e, "InvalidState", thr[e][t].req.fail)]
          /\ SetThr(e, t, IdleThr)
     ELSE /\ thr' = [thr EXCEPT ![e][t].pc = to,
                                  ![e][t].seen = pc_channels_[e][thr[e][t].id]]
          /\ UNCHANGED event_queue_
  /\ UNCHANGED <<local_id_, allowed_remote_ids_, pc_channels_,
                 removed_pc_channels_, chans, signaling_queue_, sig,
                 htrace, onstop, wire, arrived, crashed, destroyed, ncalls, ninject,
                 quiet, evictions, glare>>

\* the call is handed to the channel with its continuations; what comes of
\* it is the channel's business, and the method returns
HandedToChannel(e, t, from) ==
  /\ AtThr(e, t, from)
  /\ SetThr(e, t, IdleThr)
  /\ UNCHANGED <<local_id_, allowed_remote_ids_, pc_channels_,
                 removed_pc_channels_, chans, event_queue_, signaling_queue_,
                 sig, htrace, onstop, wire, arrived, crashed, destroyed, ncalls,
                 ninject, quiet, evictions, glare>>

UnpublishCheck(e, t) == ExistsCheck(e, t, "Unpub_check", "Unpub_get")
UnpublishGet(e, t) == CallerGet(e, t, "Unpub_get", "Unpub_call")
\* pcc->Unpublish(stream, on_success, on_failure)
UnpublishCall(e, t) == HandedToChannel(e, t, "Unpub_call")

\* GetConnectionStats with a ConnectionStats continuation
StatsCheck(e, t) == ExistsCheck(e, t, "Stats_check", "Stats_get")
StatsGet(e, t) == CallerGet(e, t, "Stats_get", "Stats_call")
StatsCall(e, t) == HandedToChannel(e, t, "Stats_call")

\* GetConnectionStats with an RTCStatsReport continuation
ReportCheck(e, t) == ExistsCheck(e, t, "Report_check", "Report_get")
ReportGet(e, t) == CallerGet(e, t, "Report_get", "Report_call")
ReportCall(e, t) == HandedToChannel(e, t, "Report_call")

-----------------------------------------------------------------------------
(* Inbound signaling: OnSignalingMessage posts a task to signaling_queue_; *)
(* the queue runs the tasks one at a time.  htrace lists the calls the     *)
(* running task made on the registry and on channels; sig.path names the   *)
(* branch it took.                                                         *)

\* OnSignalingMessage(message, remote_id): PostTask
OnSignalingMessage(e, m, from) ==
  signaling_queue_' =
    [signaling_queue_ EXCEPT ![e] = Append(@, [from |-> from, msg |-> m])]

AtSig(e, pc) == ~crashed[e] /\ ~destroyed[e] /\ sig[e].pc = pc
GoSig(e, pc) == sig' = [sig EXCEPT ![e].pc = pc]
Trace(e, ev) == htrace' = [htrace EXCEPT ![e] = Append(@, ev)]

\* the queue starts the next task: auto that = weak_this.lock()
SigPop(e) ==
  /\ AtSig(e, "idle")
  /\ signaling_queue_[e] # <<>>
  /\ sig' = [sig EXCEPT ![e] =
       [IdleSig EXCEPT !.pc = "allow",
                       !.from = Head(signaling_queue_[e]).from,
                       !.msg = Head(signaling_queue_[e]).msg]]
  /\ signaling_queue_' = [signaling_queue_ EXCEPT ![e] = Tail(@)]
  /\ htrace' = [htrace EXCEPT ![e] = <<>>]
  /\ quiet' = [quiet EXCEPT ![e] = NoId]
  /\ UNCHANGED <<evictions, glare>>
  /\ UNCHANGED <<local_id_, allowed_remote_ids_, pc_channels_,
                 removed_pc_channels_, chans, event_queue_, thr,
                 onstop, wire, arrived, crashed, destroyed, ncalls, ninject>>

\* a step of the task that touches nothing but its own position
SigLocal == UNCHANGED <<local_id_, allowed_remote_ids_, pc_channels_,
                        removed_pc_channels_, chans, event_queue_, signaling_queue_, thr, onstop, wire, arrived, crashed, destroyed,
                        ncalls, ninject, quiet, evictions, glare>>

\* the allow-list check: a message of a remote not allowed is dropped
SigAllow(e) ==
  /\ AtSig(e, "allow")
  /\ \/ ListBusy(e, 0) /\ Killed(e)
     \/ /\ IF ~SignalingAllowed(e, sig[e].from)
          THEN sig' = [sig EXCEPT ![e].pc = "done", ![e].path = "notallowed"]
          ELSE GoSig(e, "created")
       /\ UNCHANGED htrace
       /\ SigLocal

\* where the task goes next: IsPeerConnectionChannelCreated, the type tags
\* of the message and, for a chat-closed, the parse of its body
SigBranch(e) ==
  LET m == sig[e].msg IN
  IF ~IsPeerConnectionChannelCreated(e, sig[e].from)
  THEN IF HasClosedTag(m) THEN "done" ELSE "dispatch_get"
  ELSE IF HasOfferTag(m) THEN "offer_get"
  ELSE IF HasClosedTag(m)
       THEN IF JsonParses(m)
            THEN IF IsRetryCode(JsonCode(m)) THEN "retry_get" ELSE "close_get"
            ELSE "dispatch_get"
  ELSE "dispatch_get"

SigPath(pc) ==
  CASE pc = "done" -> "nochannel"
    [] pc = "retry_get" -> "retry"
    [] pc = "close_get" -> "close"
    [] OTHER -> "plain"

SigCreated(e) ==
  /\ AtSig(e, "created")
  /\ sig' = [sig EXCEPT ![e].pc = SigBranch(e), ![e].path = SigPath(SigBranch(e)),
                        ![e].seen = pc_channels_[e][sig[e].from]]
  /\ UNCHANGED htrace
  /\ SigLocal

\* the task's GetPeerConnectionChannel(remote_id), kept in pcc or new_pcc
SigGet(e, from, to, new) ==
  /\ AtSig(e, from)
  /\ \E outcome \in GetOutcomes(e, sig[e].from, FALSE) :
       /\ GetPeerConnectionChannel(e, sig[e].from, FALSE, outcome)
       /\ IF outcome = "killed"
          THEN UNCHANGED <<sig, htrace>>
          ELSE LET c == GetResult(e, sig[e].from, FALSE) IN
               /\ sig' = IF new THEN [sig EXCEPT ![e].pc = to, ![e].newpcc = c]
                         ELSE [sig EXCEPT ![e].pc = to, ![e].pcc = c]
               /\ Trace(e, Ev(IF GetCreates(e, sig[e].from, FALSE) THEN "new" ELSE "get",
                              c, NoReq))
  /\ UNCHANGED <<local_id_, allowed_remote_ids_, removed_pc_channels_,
                 event_queue_, signaling_queue_, thr, onstop, wire,
                 arrived, ncalls, ninject, quiet, evictions, glare>>

\* the task's pc_channels_.erase(remote_id) under pc_channels_mutex_
SigErase(e, from, to) ==
  /\ AtSig(e, from)
  /\ pc_channels_' = [pc_channels_ EXCEPT ![e][sig[e].from] = Absent]
  /\ GoSig(e, to)
  /\ Trace(e, Ev("erase", pc_channels_[e][sig[e].from], NoReq))
  /\ evictions' = Evicted(e, sig[e].from, sig[e].path, sig[e].seen)
  /\ UNCHANGED glare
  /\ UNCHANGED <<local_id_, allowed_remote_ids_, removed_pc_channels_, chans,
                 event_queue_, signaling_queue_, thr, onstop, wire,
                 arrived, crashed, destroyed, ncalls, ninject, quiet>>

\* a step of the task that calls a channel
SigChan == UNCHANGED <<local_id_, allowed_remote_ids_, pc_channels_,
                       removed_pc_channels_, signaling_queue_, thr,
                       onstop, arrived, crashed, destroyed, ncalls, ninject, quiet, evictions, glare>>

\* the offer branch: auto pcc = GetPeerConnectionChannel(remote_id)
SigOfferGet(e) == SigGet(e, "offer_get", "offer_decide", FALSE)

\* glare: pcc->HaveLocalOffer() && local_id_.compare(remote_id) > 0; the
\* yielding side reads the pending publish request of the channel
SigOfferDecide(e) ==
  /\ AtSig(e, "offer_decide")
  /\ IF HaveLocalOffer(sig[e].pcc) /\ LocalIdYields(e, sig[e].from)
     THEN /\ sig' = [sig EXCEPT ![e].pc = "yield_stop", ![e].path = "yield",
                                ![e].req = LatestRequest(sig[e].pcc)]
          /\ Trace(e, Ev("read", sig[e].pcc, LatestRequest(sig[e].pcc)))
     ELSE /\ sig' = [sig EXCEPT ![e].pc = "dispatch_get",
                                ![e].path = IF HaveLocalOffer(sig[e].pcc)
                                            THEN "keep" ELSE "plain"]
          /\ UNCHANGED htrace
  /\ SigLocal

\* pcc->Stop(nullptr, nullptr)
SigYieldStop(e) ==
  /\ AtSig(e, "yield_stop")
  /\ ChanStop(sig[e].pcc, e, NoReq)
  /\ GoSig(e, "yield_erase")
  /\ Trace(e, Ev("stop", sig[e].pcc, NoReq))
  /\ SigChan

SigYieldErase(e) == SigErase(e, "yield_erase", "yield_get")

\* auto new_pcc = GetPeerConnectionChannel(remote_id)
SigYieldGet(e) == SigGet(e, "yield_get", "yield_deliver", TRUE)

\* new_pcc->OnIncomingSignalingMessage(message)
SigYieldDeliver(e) ==
  /\ AtSig(e, "yield_deliver")
  /\ ChanIncoming(sig[e].newpcc, sig[e].msg)
  /\ GoSig(e, "yield_publish")
  /\ Trace(e, Ev("deliver", sig[e].newpcc, NoReq))
  /\ UNCHANGED event_queue_
  /\ SigChan

\* new_pcc->Publish(stream, success_callback, failure_callback)
SigYieldPublish(e) ==
  /\ AtSig(e, "yield_publish")
  /\ ChanPublish(sig[e].newpcc, sig[e].req)
  /\ GoSig(e, "done")
  /\ Trace(e, Ev("publish", sig[e].newpcc, sig[e].req))
  /\ UNCHANGED event_queue_
  /\ SigChan

\* chat-closed with the reserved code: GetPeerConnectionChannel(remote_id)
SigRetryGet(e) == SigGet(e, "retry_get", "retry_read", FALSE)

\* the pending publish request of the channel is read
SigRetryRead(e) ==
  /\ AtSig(e, "retry_read")
  /\ sig' = [sig EXCEPT ![e].pc = "retry_abandon",
                        ![e].req = LatestRequest(sig[e].pcc)]
  /\ Trace(e, Ev("read", sig[e].pcc, LatestRequest(sig[e].pcc)))
  /\ SigLocal

\* pcc->SetAbandoned()
SigRetryAbandon(e) ==
  /\ AtSig(e, "retry_abandon")
  /\ ChanSetAbandoned(sig[e].pcc)
  /\ GoSig(e, "retry_erase")
  /\ Trace(e, Ev("abandon", sig[e].pcc, NoReq))
  /\ UNCHANGED <<event_queue_, wire>>
  /\ SigChan

SigRetryErase(e) == SigErase(e, "retry_erase", "retry_new")

SigRetryNew(e) == SigGet(e, "retry_new", "retry_publish", TRUE)

\* new_pcc->Publish(stream, success_callback, failure_callback)
SigRetryPublish(e) ==
  /\ AtSig(e, "retry_publish")
  /\ ChanPublish(sig[e].newpcc, sig[e].req)
  /\ GoSig(e, "done")
  /\ Trace(e, Ev("publish", sig[e].newpcc, sig[e].req))
  /\ UNCHANGED event_queue_
  /\ SigChan

\* chat-closed with another code: GetPeerConnectionChannel(remote_id)
SigCloseGet(e) == SigGet(e, "close_get", "close_abandon", FALSE)

\* pcc->SetAbandoned(): "Don't send stop to remote."
SigCloseAbandon(e) ==
  /\ AtSig(e, "close_abandon")
  /\ ChanSetAbandoned(sig[e].pcc)
  /\ GoSig(e, "close_erase")
  /\ Trace(e, Ev("abandon", sig[e].pcc, NoReq))
  /\ UNCHANGED <<event_queue_, wire>>
  /\ SigChan

SigCloseErase(e) == SigErase(e, "close_erase", "done")

\* "Secondly dispatch the message to pcc."
SigDispatchGet(e) == SigGet(e, "dispatch_get", "dispatch", FALSE)

\* pcc->OnIncomingSignalingMessage(message)
SigDispatch(e) ==
  /\ AtSig(e, "dispatch")
  /\ ChanIncoming(sig[e].pcc, sig[e].msg)
  /\ GoSig(e, "done")
  /\ Trace(e, Ev("deliver", sig[e].pcc, NoReq))
  /\ UNCHANGED event_queue_
  /\ SigChan

\* the task returns
SigReturn(e) ==
  /\ AtSig(e, "done")
  /\ sig' = [sig EXCEPT ![e] = IdleSig]
  /\ htrace' = [htrace EXCEPT ![e] = <<>>]
  /\ SigLocal

-----------------------------------------------------------------------------
(* Teardown completion and the transport.                                   *)

\* a stopped channel completes its teardown and calls OnStopped(remote_id)
\* on its observer, which starts a detached thread
ChanStopped(c) ==
  /\ chans[c].state = "Stopping"
  /\ ~crashed[chans[c].owner]
  /\ ~destroyed[chans[c].owner]
  /\ chans' = [chans EXCEPT ![c].state = "Terminated"]
  /\ onstop' = [onstop EXCEPT ![chans[c].owner][chans[c].remote].push = @ + 1]
  /\ UNCHANGED <<local_id_, allowed_remote_ids_, pc_channels_,
                 removed_pc_channels_, event_queue_, signaling_queue_, sig, htrace, thr, wire, arrived, crashed, destroyed,
                 ncalls, ninject, quiet, evictions, glare>>

\* a statement on pc_channels_ is next for a caller thread or for the
\* signaling task
RegistryBusy(e) ==
  \/ \E t \in Threads :
       thr[e][t].pc \in {"Pub_get", "Send_get", "Stop_check", "Stop_get", "Stop_erase",
                         "Unpub_check", "Unpub_get", "Stats_check", "Stats_get",
                         "Report_check", "Report_get"}
  \/ sig[e].pc \in {"created", "offer_get", "yield_erase", "yield_get",
                    "retry_get", "retry_erase", "retry_new", "close_get",
                    "close_erase", "dispatch_get"}

\* OnStopped's thread: removed_pc_channels_.push_back(pc_channels_[remote_id])
\* under removed_pc_channels_mutex_; operator[] inserts a null entry for a
\* key that is not in the map.  pc_channels_mutex_ is not held: next to a
\* statement of another thread on the map this is a data race, which ends
\* as if one ran before the other or kills the process.  The thread holds
\* the raw this: when the P2PClient has been destroyed it works on freed
\* memory, and the statement goes through or kills the process.
OnStoppedPush(e, id) ==
  /\ ~crashed[e]
  /\ onstop[e][id].push > 0
  /\ \E outcome \in IF RegistryBusy(e) \/ destroyed[e]
                     THEN {"done", "killed"} ELSE {"done"} :
       IF outcome = "killed"
       THEN /\ crashed' = [crashed EXCEPT ![e] = TRUE]
            /\ UNCHANGED <<removed_pc_channels_, pc_channels_, onstop>>
       ELSE LET cur == IF pc_channels_[e][id] = Absent THEN NullPtr
                       ELSE pc_channels_[e][id] IN
            /\ removed_pc_channels_' = [removed_pc_channels_ EXCEPT ![e] = Append(@, cur)]
            /\ pc_channels_' = [pc_channels_ EXCEPT ![e][id] = cur]
            /\ onstop' = [onstop EXCEPT ![e][id].push = @ - 1, ![e][id].erase = @ + 1]
            /\ UNCHANGED crashed
  /\ UNCHANGED <<local_id_, allowed_remote_ids_, chans, event_queue_,
                 signaling_queue_, sig, htrace, thr, wire, arrived,
                 ncalls, ninject, quiet, evictions, glare, destroyed>>

\* OnStopped's thread: pc_channels_.erase(remote_id) under pc_channels_mutex_
OnStoppedErase(e, id) ==
  /\ ~crashed[e]
  /\ onstop[e][id].erase > 0
  /\ \/ destroyed[e] /\ Killed(e)
     \/ /\ pc_channels_' = [pc_channels_ EXCEPT ![e][id] = Absent]
        /\ onstop' = [onstop EXCEPT ![e][id].erase = @ - 1]
        /\ UNCHANGED <<local_id_, allowed_remote_ids_, removed_pc_channels_, chans,
                       event_queue_, signaling_queue_, sig, htrace, thr,
                       wire, arrived, crashed, destroyed, ncalls, ninject, quiet, evictions, glare>>

\* the success continuation Publish hands to the channel: nothing for a
\* null on_success or when weak_this has expired, else on_success is posted
\* to the event queue
PublishSucceeded(e, ok) ==
  IF ok = 0 \/ destroyed[e] THEN event_queue_
  ELSE [event_queue_ EXCEPT ![e] = Append(@, Task("success", "Publish", ok))]

\* an established channel reports a publish request as done, once, by
\* calling the success continuation it was given; an abandoned channel
\* reports nothing more
ChanPublished(c) ==
  /\ chans[c].state = "Established"
  /\ ~chans[c].abandoned
  /\ chans[c].pending # NoReq
  /\ ~crashed[chans[c].owner]
  /\ chans' = [chans EXCEPT ![c].pending = NoReq]
  /\ event_queue_' = PublishSucceeded(chans[c].owner, chans[c].pending.ok)
  /\ UNCHANGED <<local_id_, allowed_remote_ids_, pc_channels_,
                 removed_pc_channels_, signaling_queue_, sig, htrace, thr,
                 onstop, wire, arrived, crashed, destroyed, ncalls, ninject,
                 quiet, evictions, glare>>

\* ~P2PClient: the last owner lets go of the client.  No public method is
\* running, and no signaling task is (a task that has locked weak_this
\* keeps the client alive)
Destroy(e) ==
  /\ ~crashed[e]
  /\ ~destroyed[e]
  /\ \A t \in Threads : thr[e][t].pc = "idle"
  /\ sig[e].pc = "idle"
  /\ destroyed' = [destroyed EXCEPT ![e] = TRUE]
  /\ UNCHANGED <<local_id_, allowed_remote_ids_, pc_channels_,
                 removed_pc_channels_, chans, event_queue_, signaling_queue_,
                 sig, htrace, thr, onstop, wire, arrived, crashed, ncalls,
                 ninject, quiet, evictions, glare>>

\* a signaling task starts after the client was destroyed: weak_this.lock()
\* returns null and that->allowed_remote_ids_ dereferences it
SigPopExpired(e) ==
  /\ ~crashed[e]
  /\ destroyed[e]
  /\ signaling_queue_[e] # <<>>
  /\ Killed(e)

\* the signaling transport hands over a message of a remote
InjectUpTo(e, remotes, limit) ==
  /\ ~crashed[e]
  /\ ~destroyed[e]
  /\ ninject[e] < limit
  /\ \E from \in remotes, m \in Messages : OnSignalingMessage(e, m, from)
  /\ ninject' = [ninject EXCEPT ![e] = @ + 1]
  /\ UNCHANGED <<local_id_, allowed_remote_ids_, pc_channels_,
                 removed_pc_channels_, chans, event_queue_, sig,
                 htrace, thr, onstop, wire, arrived, crashed, destroyed, ncalls, quiet, evictions, glare>>

Inject(e, remotes) == InjectUpTo(e, remotes, MaxInject)

\* the transport delivers a message one endpoint's channel sent to another
\* endpoint; both are connected
Deliver(w) ==
  LET src == chans[w.ch].owner
      dst == chans[w.ch].remote IN
  /\ w \notin arrived
  /\ dst \in Endpoints
  /\ local_id_[src] = src
  /\ local_id_[dst] = dst
  /\ ~crashed[dst]
  /\ ~destroyed[dst]
  /\ OnSignalingMessage(dst, w.msg, src)
  /\ arrived' = arrived \cup {w}
  /\ UNCHANGED <<local_id_, allowed_remote_ids_, pc_channels_,
                 removed_pc_channels_, chans, event_queue_, sig,
                 htrace, thr, onstop, wire, crashed, destroyed, ncalls, ninject, quiet, evictions, glare>>

-----------------------------------------------------------------------------
(* The specifications. *)

CallerStep(e, t) ==
  \/ AddFind(e, t) \/ AddPush(e, t)
  \/ RemoveFind(e, t) \/ RemoveErase(e, t)
  \/ PublishFind(e, t) \/ PublishGet(e, t) \/ PublishCall(e, t)
  \/ SendFind(e, t) \/ SendGet(e, t) \/ SendCall(e, t)
  \/ StopCheck(e, t) \/ StopGet(e, t) \/ StopCall(e, t) \/ StopErase(e, t)

SigStep(e) ==
  \/ SigPop(e) \/ SigAllow(e) \/ SigCreated(e)
  \/ SigOfferGet(e) \/ SigOfferDecide(e)
  \/ SigYieldStop(e) \/ SigYieldErase(e) \/ SigYieldGet(e)
  \/ SigYieldDeliver(e) \/ SigYieldPublish(e)
  \/ SigRetryGet(e) \/ SigRetryRead(e) \/ SigRetryAbandon(e)
  \/ SigRetryErase(e) \/ SigRetryNew(e) \/ SigRetryPublish(e)
  \/ SigCloseGet(e) \/ SigCloseAbandon(e) \/ SigCloseErase(e)
  \/ SigDispatchGet(e) \/ SigDispatch(e) \/ SigReturn(e)

Background(e) ==
  \/ \E id \in Ids : OnStoppedPush(e, id) \/ OnStoppedErase(e, id)
  \/ \E c \in ChanIds : chans[c].owner = e /\ ChanStopped(c)

\* Spec: one P2PClient, either endpoint, with its caller threads; the
\* remote it deals with is the other endpoint's id, whose messages the
\* environment sends.  The endpoint that acts first is the one of the run.
Alone(e) ==
  \A f \in Endpoints \ {e} :
    ncalls[f] = 0 /\ ninject[f] = 0 /\ local_id_[f] = NoId
Peers(e) == Endpoints \ {e}
AllOps == {"Add", "Remove", "Publish", "Send", "Stop"}

\* the client connects first: its calls and its inbound messages follow
SoloConnect(e) == Alone(e) /\ Connect(e)
SoloCall(e, t) ==
  Alone(e) /\ local_id_[e] = e /\ Call(e, t, AllOps, Peers(e), MaxCalls)
SoloInject(e) == Alone(e) /\ local_id_[e] = e /\ Inject(e, Peers(e))

Next ==
  \E e \in Endpoints :
    \/ SoloConnect(e)
    \/ \E t \in Threads : SoloCall(e, t)
    \/ \E t \in Threads : CallerStep(e, t)
    \/ SoloInject(e)
    \/ SigStep(e)
    \/ Background(e)

Spec == Init /\ [][Next]_vars

\* SpecGlare: two endpoints that connect, allow each other and publish to
\* each other; the transport carries what their channels send
GlareCall(e) ==
  local_id_[e] = e /\ Call(e, 1, {"Add", "Publish"}, Peers(e), GlareCalls)

SigStepGlare(e) ==
  \/ SigPop(e) \/ SigAllow(e) \/ SigCreated(e)
  \/ SigOfferGet(e) \/ SigOfferDecide(e)
  \/ SigYieldStop(e) \/ SigYieldErase(e) \/ SigYieldGet(e)
  \/ SigYieldDeliver(e) \/ SigYieldPublish(e)
  \/ SigCloseGet(e) \/ SigCloseAbandon(e) \/ SigCloseErase(e)
  \/ SigDispatchGet(e) \/ SigDispatch(e) \/ SigReturn(e)

NextGlare ==
  \/ \E e \in Endpoints :
       \/ Connect(e)
       \/ GlareCall(e)
       \/ AddFind(e, 1) \/ AddPush(e, 1)
       \/ PublishFind(e, 1) \/ PublishGet(e, 1) \/ PublishCall(e, 1)
       \/ SigStepGlare(e)
       \/ Background(e)
  \/ \E w \in wire : Deliver(w)

SpecGlare == Init /\ [][NextGlare]_vars

\* SpecQuery: one P2PClient whose callers allow a remote, open a session
\* and then call the methods that need an existing session
QueryOps == {"Add", "Publish", "Stop", "Unpublish", "Stats", "StatsReport"}

QueryCall(e, t) ==
  Alone(e) /\ local_id_[e] = e /\ Call(e, t, QueryOps, Peers(e), QueryCalls)

QueryStep(e, t) ==
  \/ AddFind(e, t) \/ AddPush(e, t)
  \/ PublishFind(e, t) \/ PublishGet(e, t) \/ PublishCall(e, t)
  \/ StopCheck(e, t) \/ StopGet(e, t) \/ StopCall(e, t) \/ StopErase(e, t)
  \/ UnpublishCheck(e, t) \/ UnpublishGet(e, t) \/ UnpublishCall(e, t)
  \/ StatsCheck(e, t) \/ StatsGet(e, t) \/ StatsCall(e, t)
  \/ ReportCheck(e, t) \/ ReportGet(e, t) \/ ReportCall(e, t)

NextQuery ==
  \E e \in Endpoints :
    \/ SoloConnect(e)
    \/ \E t \in Threads : QueryCall(e, t)
    \/ \E t \in Threads : QueryStep(e, t)
    \/ Background(e)

SpecQuery == Init /\ [][NextQuery]_vars

\* SpecPublish: one P2PClient with one caller, who allows a remote and
\* publishes to it; the remote answers, offers and closes, and the channel
\* reports the publication
PublishCaller(e) ==
  /\ Alone(e)
  /\ local_id_[e] = e
  /\ Call(e, 1, {"Add", "Publish"}, Peers(e), PublishCalls)

PublishInject(e) ==
  Alone(e) /\ local_id_[e] = e /\ InjectUpTo(e, Peers(e), PublishInjects)

Completion(e) == \E c \in ChanIds : chans[c].owner = e /\ ChanPublished(c)

NextPublish ==
  \E e \in Endpoints :
    \/ SoloConnect(e)
    \/ PublishCaller(e)
    \/ AddFind(e, 1) \/ AddPush(e, 1)
    \/ PublishFind(e, 1) \/ PublishGet(e, 1) \/ PublishCall(e, 1)
    \/ PublishInject(e)
    \/ SigStep(e)
    \/ Background(e)
    \/ Completion(e)

SpecPublish == Init /\ [][NextPublish]_vars

\* SpecDestroy: one P2PClient with one caller; the client is destroyed
\* while continuations, signaling tasks and OnStopped threads that refer to
\* it are still to run
DestroyCaller(e) ==
  /\ Alone(e)
  /\ local_id_[e] = e
  /\ Call(e, 1, {"Add", "Publish", "Stop"}, Peers(e), DestroyCalls)

SoloDestroy(e) == Alone(e) /\ Destroy(e)

NextDestroy ==
  \E e \in Endpoints :
    \/ SoloConnect(e)
    \/ DestroyCaller(e)
    \/ AddFind(e, 1) \/ AddPush(e, 1)
    \/ PublishFind(e, 1) \/ PublishGet(e, 1) \/ PublishCall(e, 1)
    \/ StopCheck(e, 1) \/ StopGet(e, 1) \/ StopCall(e, 1) \/ StopErase(e, 1)
    \/ SoloInject(e)
    \/ SigStep(e)
    \/ Background(e)
    \/ Completion(e)
    \/ SoloDestroy(e)
    \/ SigPopExpired(e)

SpecDestroy == Init /\ [][NextDestroy]_vars

-----------------------------------------------------------------------------
(* Properties. *)

\* id is not an element of the allow-list of e
NotListed(e, id) ==
  \A i \in DOMAIN allowed_remote_ids_[e] : allowed_remote_ids_[e][i] # id

\* the step posts exactly one failure task with this code for a non-null
\* on_failure, and nothing for a null one
PostsFailure(e, code, cb) ==
  event_queue_'[e] =
    IF cb = 0 THEN event_queue_[e]
    ELSE event_queue_[e] \o <<[kind |-> "failure", code |-> code, cb |-> cb]>>

\* the thread t of e takes a step from position pc
ThrStepsFrom(e, t, pc) == thr[e][t].pc = pc /\ thr'[e][t] # thr[e][t]
\* the signaling task of e takes a step from position pc
SigStepsFrom(e, pc) == sig[e].pc = pc /\ sig'[e] # sig[e]

\* C1: Publish or Send to a target that is not in the allow-list returns
\* at the check: the failure RemoteNotAllowed is posted to the event queue
\* for on_failure, no channel is constructed, and the registry is as it was
\* (no entry for the target is added).
C1_NotAllowedRejected ==
  [][\A e \in Endpoints, t \in Threads :
       (ThrStepsFrom(e, t, "Pub_find") \/ ThrStepsFrom(e, t, "Send_find"))
       /\ NotListed(e, thr[e][t].id)
       => /\ thr'[e][t].pc = "idle"
          /\ PostsFailure(e, "RemoteNotAllowed", thr[e][t].req.fail)
          /\ chans' = chans
          /\ pc_channels_' = pc_channels_]_vars

\* a RemoteNotAllowed failure is in the event queue for a target that has
\* no registry entry
C1_Witness ==
  \E e \in Endpoints :
    /\ \E i \in DOMAIN event_queue_[e] :
         event_queue_[e][i].code = "RemoteNotAllowed"
    /\ \A id \in Ids : pc_channels_[e][id] = Absent
    /\ chans = <<>>

\* C8: the allow-list holds an id at most once, however the calls of
\* AddAllowedRemoteId interleave.
C8_AddIdempotent ==
  \A e \in Endpoints, id \in Ids :
    Cardinality({i \in DOMAIN allowed_remote_ids_[e] :
                   allowed_remote_ids_[e][i] = id}) <= 1

\* C9: RemoveAllowedRemoteId of an id that is not in the allow-list returns
\* at the check: the failure RemoteNotExisted is posted for on_failure and
\* nothing else is posted (on_success is never invoked: Stop is not
\* reached), and the allow-list is unchanged.
C9_RemoveAbsentRejected ==
  [][\A e \in Endpoints, t \in Threads :
       ThrStepsFrom(e, t, "Rem_find") /\ NotListed(e, thr[e][t].id)
       => /\ thr'[e][t].pc = "idle"
          /\ PostsFailure(e, "RemoteNotExisted", thr[e][t].req.fail)
          /\ allowed_remote_ids_' = allowed_remote_ids_
          /\ chans' = chans
          /\ pc_channels_' = pc_channels_]_vars

\* a RemoteNotExisted failure is in the event queue, and no success of the
\* same call
C9_Witness ==
  \E e \in Endpoints : \E i \in DOMAIN event_queue_[e] :
    /\ event_queue_[e][i].code = "RemoteNotExisted"
    /\ \A j \in DOMAIN event_queue_[e] :
         event_queue_[e][j].kind = "success"
         => event_queue_[e][j].cb # event_queue_[e][i].cb

\* the signaling task drops its message: it ends having made no call, and
\* no state of the client or of a channel changes
Dropped(e) ==
  /\ sig'[e].pc = "done"
  /\ htrace'[e] = <<>>
  /\ pc_channels_' = pc_channels_
  /\ chans' = chans
  /\ event_queue_' = event_queue_
  /\ wire' = wire
  /\ removed_pc_channels_' = removed_pc_channels_
  /\ allowed_remote_ids_' = allowed_remote_ids_

\* C10: an inbound message is dropped, with no channel created, no message
\* sent and nothing delivered to any channel, when its remote is not in
\* the allow-list, and when it is a chat-closed and the registry holds no
\* entry for its remote; the task then returns without doing anything.
C10_InboundDropped ==
  [][\A e \in Endpoints :
       /\ SigStepsFrom(e, "allow") /\ NotListed(e, sig[e].from) => Dropped(e)
       /\ SigStepsFrom(e, "created")
          /\ sig[e].msg \in {"closed2601", "closedOther", "closedBad"}
          /\ pc_channels_[e][sig[e].from] = Absent
          => Dropped(e)
       /\ SigStepsFrom(e, "done")
          => /\ sig'[e].pc = "idle"
             /\ pc_channels_' = pc_channels_
             /\ chans' = chans
             /\ event_queue_' = event_queue_
             /\ wire' = wire]_vars

\* a chat-closed of an allowed remote with no channel has been dropped
C10_Witness ==
  \E e \in Endpoints :
    /\ sig[e].pc = "done"
    /\ sig[e].path = "nochannel"
    /\ ~NotListed(e, sig[e].from)
    /\ htrace[e] = <<>>

\* a is lexicographically greater than b: at the first place where they
\* differ a has the greater character, or b has ended
LexGreater(a, b) ==
  \E k \in 1..Len(a) :
    /\ \A i \in 1..(k - 1) : i <= Len(b) /\ a[i] = b[i]
    /\ (k > Len(b) \/ a[k] > b[k])

\* C2: an offer from R processed while the channel of R has a local offer
\* and the local id is lexicographically greater than R takes the yield
\* branch, whose calls are, in order: the pending publish request of the
\* old channel is read, the old channel is stopped, its registry entry is
\* erased, a channel other than the old one is obtained and is the one
\* registered under R, the offer is delivered to that channel, and Publish
\* is issued on it with the request read.  The old channel gets no offer.
C2_GlareYield ==
  [][\A e \in Endpoints :
       LET old == sig[e].pcc
           R == sig[e].from IN
       /\ SigStepsFrom(e, "offer_decide")
          /\ chans[old].state = "Offering"
          /\ LexGreater(local_id_[e], R)
          => /\ sig'[e].pc = "yield_stop"
             /\ sig'[e].path = "yield"
             /\ sig'[e].req = chans[old].latest
       /\ SigStepsFrom(e, "yield_stop")
          => chans'[old].state \in {"Stopping", "Terminated"}
       /\ SigStepsFrom(e, "yield_erase") => pc_channels_'[e][R] = Absent
       /\ SigStepsFrom(e, "yield_get")
          => /\ sig'[e].newpcc # old
             /\ pc_channels_'[e][R] = sig'[e].newpcc
             /\ ~chans'[sig'[e].newpcc].abandoned
       /\ SigStepsFrom(e, "yield_publish")
          => chans'[sig[e].newpcc].latest = sig[e].req
       /\ sig'[e].pc = "done" /\ sig'[e].path = "yield"
          => LET h == htrace'[e] IN
             /\ Len(h) = 7
             /\ h[1].ev \in {"get", "new"}
             /\ h[2] = [ev |-> "read", ch |-> h[1].ch, req |-> sig'[e].req]
             /\ h[3] = [ev |-> "stop", ch |-> h[1].ch, req |-> NoReq]
             /\ h[4].ev = "erase"
             /\ h[5].ev \in {"get", "new"}
             /\ h[5].ch # h[1].ch
             /\ h[6] = [ev |-> "deliver", ch |-> h[5].ch, req |-> NoReq]
             /\ h[7] = [ev |-> "publish", ch |-> h[5].ch, req |-> sig'[e].req]]_vars

\* the yield branch has run to its end for a channel with a pending stream:
\* the old channel is stopped, the channel registered is the new one, it is
\* the answerer and holds the republished request
C2_Witness ==
  \E e \in Endpoints :
    /\ sig[e].pc = "done"
    /\ sig[e].path = "yield"
    /\ sig[e].req.stream # 0
    /\ LexGreater(local_id_[e], sig[e].from)
    /\ chans[sig[e].pcc].state \in {"Stopping", "Terminated"}
    /\ pc_channels_[e][sig[e].from] = sig[e].newpcc
    /\ chans[sig[e].newpcc].state = "Answering"
    /\ chans[sig[e].newpcc].latest = sig[e].req

GlareHigh == IdHigh
GlareLow == IdMid

\* a glare has happened: each endpoint held a channel with a local offer
\* to the other, and neither offer had arrived
GlareOccurred == glare # <<>>

\* every message sent has arrived and has been processed, and no call is
\* in progress
AllProcessed ==
  /\ wire \subseteq arrived
  /\ \A e \in Endpoints :
       /\ signaling_queue_[e] = <<>>
       /\ sig[e].pc = "idle"
       /\ \A t \in Threads : thr[e][t].pc = "idle"

\* C4: after a glare, when each endpoint has processed every message of the
\* other, the endpoint of the greater id has replaced its channel and is
\* the answerer, and the original channel of the endpoint of the lower id
\* is still the one registered there and is the offerer.
C4_GlareDeterminism ==
  GlareOccurred /\ AllProcessed
  => LET a == pc_channels_[GlareHigh][GlareLow]
         b == pc_channels_[GlareLow][GlareHigh] IN
     /\ a \in ChanIds
     /\ a # glare[GlareHigh]
     /\ chans[a].state = "Answering"
     /\ b = glare[GlareLow]
     /\ chans[b].state \in {"Offering", "Established"}

\* C5: a chat-closed with code 2601 for a remote that has a registry entry
\* takes the retry branch, whose calls are, in order: the pending publish
\* request of the old channel is read, the old channel is marked abandoned,
\* its entry is erased, a channel other than the old one is obtained (newly
\* constructed when the entry is absent) and is the one registered, and
\* Publish is issued on it, once, with the request read.  The branch never
\* stops the old channel, and an abandoned channel sends no teardown.
C5_AbandonRetry ==
  [][\A e \in Endpoints :
       LET old == sig[e].pcc
           R == sig[e].from IN
       /\ SigStepsFrom(e, "created") /\ sig[e].msg = "closed2601"
          /\ pc_channels_[e][R] # Absent
          => sig'[e].pc = "retry_get" /\ sig'[e].path = "retry"
       /\ SigStepsFrom(e, "retry_read") => sig'[e].req = chans[old].latest
       /\ SigStepsFrom(e, "retry_abandon")
          => /\ chans'[old].abandoned
             /\ chans'[old].state = chans[old].state
             /\ pc_channels_' = pc_channels_
             /\ wire' = wire
       /\ SigStepsFrom(e, "retry_erase")
          => /\ chans[old].abandoned
             /\ pc_channels_'[e][R] = Absent
             /\ chans' = chans
             /\ wire' = wire
       /\ SigStepsFrom(e, "retry_new")
          => /\ sig'[e].newpcc # old
             /\ pc_channels_'[e][R] = sig'[e].newpcc
             /\ ~chans'[sig'[e].newpcc].abandoned
             /\ pc_channels_[e][R] = Absent
                => sig'[e].newpcc = Len(chans) + 1 /\ Len(chans') = Len(chans) + 1
       /\ SigStepsFrom(e, "retry_publish")
          => chans'[sig[e].newpcc].latest = sig[e].req
       /\ sig'[e].pc = "done" /\ sig'[e].path = "retry"
          => LET h == htrace'[e] IN
             /\ Len(h) = 6
             /\ h[1].ev \in {"get", "new"}
             /\ h[2] = [ev |-> "read", ch |-> h[1].ch, req |-> sig'[e].req]
             /\ h[3] = [ev |-> "abandon", ch |-> h[1].ch, req |-> NoReq]
             /\ h[4].ev = "erase"
             /\ h[5].ev \in {"get", "new"}
             /\ h[5].ch # h[1].ch
             /\ h[6] = [ev |-> "publish", ch |-> h[5].ch, req |-> sig'[e].req]
       /\ \A c \in DOMAIN chans :
            chans[c].abandoned /\ [ch |-> c, msg |-> "closedOther"] \notin wire
            => [ch |-> c, msg |-> "closedOther"] \notin wire']_vars

\* the retry branch has run to its end for a channel with a pending stream:
\* the old channel is abandoned, not stopped, and has sent no teardown; the
\* channel registered is a new one and holds the republished request
C5_Witness ==
  \E e \in Endpoints :
    /\ sig[e].pc = "done"
    /\ sig[e].path = "retry"
    /\ sig[e].req.stream # 0
    /\ chans[sig[e].pcc].abandoned
    /\ chans[sig[e].pcc].state = "Offering"
    /\ [ch |-> sig[e].pcc, msg |-> "closedOther"] \notin wire
    /\ htrace[e][5].ev = "new"
    /\ pc_channels_[e][sig[e].from] = sig[e].newpcc
    /\ chans[sig[e].newpcc].latest = sig[e].req
    /\ [ch |-> sig[e].newpcc, msg |-> "offer"] \in wire

\* C6: Stop(id) and the handling of a chat-closed of id that found the
\* same channel do not both remove a channel from the registry.
C6_OnePathEvicts ==
  \A e \in Endpoints :
    \A r1 \in evictions[e], r2 \in evictions[e] :
      ~(/\ r1.by = "Stop"
        /\ r2.by = "close"
        /\ r1.seen = r2.seen
        /\ r1.seen \in ChanIds)

\* C7: Stop(id) fails with InvalidState at its check when the registry has
\* no channel for id, and when the last call that returned was a Stop(id)
\* that found a channel and nothing else has run since but the teardown
\* completion of channels (OnStopped).
C7_StopAgainInvalidState ==
  [][\A e \in Endpoints, t \in Threads :
       ThrStepsFrom(e, t, "Stop_check")
       /\ \/ pc_channels_[e][thr[e][t].id] = Absent
          \/ thr[e][t].op = "Stop" /\ quiet[e] = thr[e][t].id
       => /\ thr'[e][t].pc = "idle"
          /\ PostsFailure(e, "InvalidState", thr[e][t].req.fail)]_vars

\* the teardown messages that do not carry the code 2601
PlainTeardowns == {"closedOther", "closedBad"}

\* C12: a chat-closed that does not carry the code 2601 (another code, no
\* data field, or a body that does not parse), for a remote whose registry
\* entry is a channel, takes the teardown branch; the task ends having
\* marked the channel abandoned and erased the entry, having delivered the
\* message to no channel and having constructed no channel.
C12_TeardownAbandons ==
  [][\A e \in Endpoints :
       /\ SigStepsFrom(e, "created")
          /\ sig[e].msg \in PlainTeardowns
          /\ pc_channels_[e][sig[e].from] \in ChanIds
          => sig'[e].pc = "close_get"
       /\ sig[e].pc # "done" /\ sig'[e].pc = "done"
          /\ sig'[e].msg \in PlainTeardowns
          /\ sig'[e].seen \in ChanIds
          => LET h == htrace'[e] IN
             /\ \E i \in DOMAIN h : h[i].ev = "abandon"
             /\ \E i \in DOMAIN h : h[i].ev = "erase"
             /\ \A i \in DOMAIN h : h[i].ev \notin {"deliver", "new"}]_vars

\* C14 as stated: RemoveAllowedRemoteId of an id that is not in the
\* allow-list leaves the list as it was and goes on to Stop(id).
C14_RemoveAbsentStops ==
  [][\A e \in Endpoints, t \in Threads :
       ThrStepsFrom(e, t, "Rem_find") /\ NotListed(e, thr[e][t].id)
       => /\ allowed_remote_ids_' = allowed_remote_ids_
          /\ thr'[e][t].pc = "Stop_check"]_vars

\* C14 as amended: RemoveAllowedRemoteId of an id that is not in the
\* allow-list leaves the list as it was and does not go on to Stop(id):
\* the call ends at the check, no channel is stopped or erased, no
\* teardown is sent and no teardown completion is started.
C14_RemoveAbsentNoStop ==
  [][\A e \in Endpoints, t \in Threads :
       ThrStepsFrom(e, t, "Rem_find") /\ NotListed(e, thr[e][t].id)
       => /\ allowed_remote_ids_' = allowed_remote_ids_
          /\ thr'[e][t] = IdleThr
          /\ \A c \in DOMAIN chans : chans'[c].state = chans[c].state
          /\ pc_channels_'[e][thr[e][t].id] = pc_channels_[e][thr[e][t].id]
          /\ wire' = wire
          /\ onstop' = onstop]_vars

\* a removal of an absent id has failed while a call is still possible,
\* and nothing of Stop has happened at the endpoint: no Stop result is in
\* the event queue, no channel of the endpoint is stopped
C14_Witness ==
  \E e \in Endpoints :
    /\ \E i \in DOMAIN event_queue_[e] : event_queue_[e][i].code = "RemoteNotExisted"
    /\ \A i \in DOMAIN event_queue_[e] :
         event_queue_[e][i].code \notin {"Stop", "InvalidState"}
    /\ \A t \in Threads : thr[e][t].pc = "idle"
    /\ \E c \in DOMAIN chans : chans[c].owner = e
    /\ \A c \in DOMAIN chans :
         chans[c].owner = e => chans[c].state \notin {"Stopping", "Terminated"}

\* C20: every registry entry is a channel and every element of the
\* pending-removal list is a channel: none is null.
C20_NoNullEntries ==
  \A e \in Endpoints :
    /\ \A id \in Ids : pc_channels_[e][id] # NullPtr
    /\ \A i \in DOMAIN removed_pc_channels_[e] : removed_pc_channels_[e][i] # NullPtr

\* C19: an eviction removes only the channel it was meant for.  The erase
\* of Stop(id) removes the channel that call stopped; the erase of
\* OnStopped(id) removes a channel whose teardown has completed; and a
\* channel appended to the pending-removal list is one whose teardown has
\* completed, never a channel registered in its place.
C19_EvictsOwnChannel ==
  [][\A e \in Endpoints :
       /\ \A t \in Threads :
            ThrStepsFrom(e, t, "Stop_erase")
            /\ pc_channels_[e][thr[e][t].id] \in ChanIds
            => pc_channels_[e][thr[e][t].id] = thr[e][t].pcc
       /\ \A id \in Ids :
            onstop'[e][id].erase < onstop[e][id].erase
            /\ pc_channels_[e][id] \in ChanIds
            => chans[pc_channels_[e][id]].state = "Terminated"
       /\ Len(removed_pc_channels_'[e]) > Len(removed_pc_channels_[e])
          => LET c == removed_pc_channels_'[e][Len(removed_pc_channels_'[e])] IN
             c \in ChanIds => chans[c].state = "Terminated"]_vars

\* the channel c has been evicted: it is not the registry entry of its
\* remote at its owner
IsEvicted(c) == pc_channels_[chans[c].owner][chans[c].remote] # c

\* C17: a channel that has been evicted from the registry and whose
\* teardown has not completed (OnStopped has not been called for it) is
\* an element of the pending-removal list.
C17_EvictedIsRetained ==
  \A c \in DOMAIN chans :
    IsEvicted(c) /\ chans[c].state = "Stopping"
    => \E i \in DOMAIN removed_pc_channels_[chans[c].owner] :
         removed_pc_channels_[chans[c].owner][i] = c

\* C16: a lookup that finds an abandoned channel registered evicts it,
\* disables its outbound stop, and returns a channel newly constructed and
\* registered in its place; no lookup returns an abandoned channel.
C16_LookupReplacesAbandoned ==
  [][\A e \in Endpoints :
       /\ \A t \in Threads :
            LET id == thr[e][t].id
                old == pc_channels_[e][id] IN
            (\/ ThrStepsFrom(e, t, "Pub_get")
             \/ ThrStepsFrom(e, t, "Send_get")
             \/ ThrStepsFrom(e, t, "Stop_get"))
            => /\ ~chans'[thr'[e][t].pcc].abandoned
               /\ pc_channels_'[e][id] = thr'[e][t].pcc
               /\ old \in ChanIds /\ chans[old].abandoned
                  => /\ thr'[e][t].pcc = Len(chans) + 1
                     /\ chans'[old].stopDisabled
       /\ LET id == sig[e].from
              old == pc_channels_[e][id] IN
          (\E pc \in {"offer_get", "yield_get", "retry_get", "retry_new",
                      "close_get", "dispatch_get"} : SigStepsFrom(e, pc))
          /\ old \in ChanIds /\ chans[old].abandoned
          => /\ pc_channels_'[e][id] = Len(chans) + 1
             /\ ~chans'[Len(chans) + 1].abandoned
             /\ chans'[old].stopDisabled]_vars

\* nothing is in progress at e: no call is running, the signaling queue is
\* empty and its task has returned
Quiescent(e) ==
  /\ \A t \in Threads : thr[e][t].pc = "idle"
  /\ signaling_queue_[e] = <<>>
  /\ sig[e].pc = "idle"

\* C13: when nothing is in progress at an endpoint and id is not in its
\* allow-list (every RemoveAllowedRemoteId(id) has returned, and no
\* AddAllowedRemoteId(id) came after the last), the registry holds no
\* channel for id.
C13_RemovedHasNoSession ==
  \A e \in Endpoints, id \in Ids :
    Quiescent(e) /\ NotListed(e, id) => pc_channels_[e][id] \notin ChanIds

\* the lookups of the methods that need an existing session
SessionLookups == {"Stop_get", "Unpub_get", "Stats_get", "Report_get"}

\* C18: the lookup of Stop, of Unpublish and of either GetConnectionStats
\* constructs no channel: it returns the channel that the existence check
\* of the call found registered.
C18_LookupCreatesNothing ==
  [][\A e \in Endpoints, t \in Threads :
       (\E pc \in SessionLookups : ThrStepsFrom(e, t, pc))
       => /\ Len(chans') = Len(chans)
          /\ thr'[e][t].pcc = thr[e][t].seen]_vars

\* the tasks of the event queue that complete a Publish call
CompletesPublish(task) == task.code \in {"Publish", "RemoteNotAllowed"}

\* C11: the continuations of one Publish call are invoked at most once in
\* all: the event queue never holds two tasks that complete the same call.
C11_CompletedAtMostOnce ==
  \A e \in Endpoints :
    \A i \in DOMAIN event_queue_[e], j \in DOMAIN event_queue_[e] :
      /\ CompletesPublish(event_queue_[e][i])
      /\ CompletesPublish(event_queue_[e][j])
      /\ event_queue_[e][i].cb = event_queue_[e][j].cb
      => i = j

\* C15: after the P2PClient has been destroyed, nothing that runs touches
\* it: its allow-list, registry, pending-removal list and local id stay as
\* they were, and no null or dangling reference to it is followed.
C15_NoOpAfterDestroy ==
  [][\A e \in Endpoints :
       destroyed[e]
       => /\ allowed_remote_ids_'[e] = allowed_remote_ids_[e]
          /\ pc_channels_'[e] = pc_channels_[e]
          /\ removed_pc_channels_'[e] = removed_pc_channels_[e]
          /\ local_id_'[e] = local_id_[e]
          /\ crashed'[e] = crashed[e]]_vars

\* C21: the recovery branches publish on the replacement channel only a
\* request there is to resume: when the glare yield or the retry after a
\* chat-closed with code 2601 calls Publish on the new channel, the request
\* read from the old channel has a stream; with no pending stream (the old
\* channel's offer came from Send, or from the remote) no Publish is made.
C21_ResumesOnlyPending ==
  [][\A e \in Endpoints :
       /\ SigStepsFrom(e, "yield_publish") \/ SigStepsFrom(e, "retry_publish")
          => sig[e].req.stream # 0
       /\ Len(htrace'[e]) > Len(htrace[e])
          /\ htrace'[e][Len(htrace'[e])].ev = "publish"
          => htrace'[e][Len(htrace'[e])].req # NoReq]_vars

=============================================================================
